---- MODULE Spec2Model ----
(***************************************************************************)
(* Model of the repo_mind orchestration core: the plan authorization gate  *)
(* (services/orchestrator.py, api/orchestrator.py) and its sequential step *)
(* executor.  Plans are persisted as JSON text; signatures are HMACs over  *)
(* the sorted-key JSON of the plan as loaded from that text.               *)
(***************************************************************************)
EXTENDS Integers, Sequences, FiniteSets, TLC

\* ---------------------------------------------------------------- bounds
MaxPlans == 1
MaxClock == 3
MaxActions == 4
\* calls of _execute_actions in a row, in the stand-alone runs
MaxRuns == 2
\* whitespace characters appended to a plan file from outside
MaxPad == 1
\* background scans submitted
MaxSubmissions == 2
\* the largest max_iterations given to marathon_agent
MaxIterations == 2
\* output parts in one reply of the model
MaxTurnLen == 2
\* the limiter's clock stops at this tick
MaxTime == 4
\* the largest per-minute limit a RateLimiter is constructed with
MaxLimit == 1

\* ------------------------------------------------------- Python values
\* Python None is the empty tuple, any other value v of an Optional field
\* is the one-element tuple <<v>>.
None == <<>>
Some(x) == <<x>>

\* ------------------------------------------------------------ JSON text
\* A JSON document is modelled by its syntax tree; an object keeps the order
\* in which its members are written (order) next to their values (v).
JNull == [t |-> "null"]
JString(s) == [t |-> "string", v |-> s]
JNumber(n) == [t |-> "number", v |-> n]
JBool(b) == [t |-> "bool", v |-> b]
JArray(xs) == [t |-> "array", v |-> xs]
JObject(order, members) == [t |-> "object", order |-> order, v |-> members]

\* Every dictionary key the orchestrator writes, in the order sort_keys=True
\* puts them (Python string order).
SortedKeys ==
  << "action", "action_results", "actions", "analysis_type",
     "approval_required", "completed_actions", "created_at",
     "custom_instructions", "error", "executed_at", "plan_id", "repo_id",
     "request", "results", "status", "step", "total_actions" >>

\* dict lookup after json.load
Member(obj, key) == obj.v[key]

RECURSIVE SortKeys(_)
\* json.dumps(..., sort_keys=True): members of every object in key order
SortKeys(j) ==
  CASE j.t = "object" ->
         JObject(SelectSeq(SortedKeys, LAMBDA k : k \in DOMAIN j.v),
                 [k \in DOMAIN j.v |-> SortKeys(j.v[k])])
    [] j.t = "array" -> JArray([i \in 1..Len(j.v) |-> SortKeys(j.v[i])])
    [] OTHER -> j

DecodeOpt(j) == IF j.t = "null" THEN None ELSE Some(j.v)

EncodeAction(a) ==
  JObject(<<"step", "action", "status">>,
          [step |-> JNumber(a.step), action |-> JString(a.action),
           status |-> JString(a.status)])

DecodeAction(j) ==
  [step |-> Member(j, "step").v,
   action |-> Member(j, "action").v,
   status |-> Member(j, "status").v]

EncodeRequest(r) ==
  JObject(<<"repo_id", "analysis_type", "custom_instructions">>,
          [repo_id |-> JString(r.repo_id),
           analysis_type |-> JString(r.analysis_type),
           custom_instructions |-> (IF r.custom_instructions = None THEN JNull ELSE JString(r.custom_instructions[1]))])

DecodeRequest(j) ==
  [repo_id |-> Member(j, "repo_id").v,
   analysis_type |-> Member(j, "analysis_type").v,
   custom_instructions |-> DecodeOpt(Member(j, "custom_instructions"))]

EncodeActionResult(r) ==
  JObject(<<"step", "action", "status", "error">>,
          [step |-> JNumber(r.step), action |-> JString(r.action),
           status |-> JString(r.status), error |-> JString(r.error)])

DecodeActionResult(j) ==
  [step |-> Member(j, "step").v,
   action |-> Member(j, "action").v,
   status |-> Member(j, "status").v,
   error |-> Member(j, "error").v]

EncodeResults(r) ==
  JObject(<<"repo_id", "analysis_type", "action_results", "total_actions",
            "completed_actions">>,
          [repo_id |-> JString(r.repo_id),
           analysis_type |-> JString(r.analysis_type),
           action_results |-> JArray([i \in 1..Len(r.action_results) |-> EncodeActionResult(r.action_results[i])]),
           total_actions |-> JNumber(r.total_actions),
           completed_actions |-> JNumber(r.completed_actions)])

DecodeResults(j) ==
  [repo_id |-> Member(j, "repo_id").v,
   analysis_type |-> Member(j, "analysis_type").v,
   action_results |-> [i \in 1..Len(Member(j, "action_results").v) |-> DecodeActionResult(Member(j, "action_results").v[i])],
   total_actions |-> Member(j, "total_actions").v,
   completed_actions |-> Member(j, "completed_actions").v]

\* the plan dictionary in insertion order (create_analysis_plan)
EncodePlan(p) ==
  JObject(<<"plan_id", "created_at", "status", "request", "actions",
            "executed_at", "results", "approval_required">>,
          [plan_id |-> JString(p.plan_id),
           created_at |-> JString(p.created_at),
           status |-> JString(p.status),
           request |-> EncodeRequest(p.request),
           actions |-> JArray([i \in 1..Len(p.actions) |-> EncodeAction(p.actions[i])]),
           executed_at |-> (IF p.executed_at = None THEN JNull ELSE JString(p.executed_at[1])),
           results |-> (IF p.results = None THEN JNull ELSE EncodeResults(p.results[1])),
           approval_required |-> JBool(p.approval_required)])

DecodePlan(j) ==
  [plan_id |-> Member(j, "plan_id").v,
   created_at |-> Member(j, "created_at").v,
   status |-> Member(j, "status").v,
   request |-> DecodeRequest(Member(j, "request")),
   actions |-> [i \in 1..Len(Member(j, "actions").v) |-> DecodeAction(Member(j, "actions").v[i])],
   executed_at |-> DecodeOpt(Member(j, "executed_at")),
   results |-> IF Member(j, "results").t = "null" THEN None
               ELSE Some(DecodeResults(Member(j, "results"))),
   approval_required |-> Member(j, "approval_required").v]

\* json.dump(plan, f, indent=2): the text written to the plan file
\* (trailing: the whitespace characters after the document, none as written)
JsonDump(p) == [doc |-> EncodePlan(p), indent |-> 2, trailing |-> 0]
\* json.load(f): whitespace is not part of the value
JsonLoad(text) == DecodePlan(text.doc)
\* json.dumps(plan, sort_keys=True)
JsonDumpsSorted(p) == SortKeys(EncodePlan(p))

\* ----------------------------------------------------------- signatures
SecretKey == "ORCHESTRATOR_SECRET_KEY"
OtherKey == "some-other-key"

\* hmac.new(key, msg, sha256).hexdigest(): an ASCII string that identifies
\* the key and the message (no collisions, no forgery without the key)
HMAC(key, msg) == [ascii |-> TRUE, digest |-> <<key, msg>>]

\* strings that are no digest of anything: "invalid_signature" and a string
\* with a non-ASCII character
InvalidSignature == [ascii |-> TRUE, digest |-> <<>>]
NonAsciiSignature == [ascii |-> FALSE, digest |-> <<>>]

\* hmac.compare_digest on two str: TypeError unless both are ASCII
CompareDigest(a, b) ==
  IF a.ascii /\ b.ascii
  THEN (IF a = b THEN "equal" ELSE "different")
  ELSE "TypeError"

generate_signature(plan, approved_by) ==
  HMAC(SecretKey, <<JsonDumpsSorted(plan), approved_by>>)

\* as ExpectedSignature, with sort_keys=True forgotten
ExpectedSignature_Unsorted(plan, approved_by) ==
  HMAC(SecretKey, <<EncodePlan(plan), approved_by>>)

\* _verify_signature: the signature it expects ...
ExpectedSignature(plan, approved_by) ==
  HMAC(SecretKey, <<JsonDumpsSorted(plan), approved_by>>)

\* as _verify_signature, comparing the supplied signature with itself
_verify_signature_Self(expected_signature, signature) ==
  CompareDigest(signature, signature)

\* ... and its comparison with the one supplied
_verify_signature(expected_signature, signature) ==
  CompareDigest(signature, expected_signature)

\* ---------------------------------------------------- plan compilation
\* truth value of an Optional[str]
Truthy(o) == o # None /\ o[1] # ""

MkAction(n, kind) == [step |-> n, action |-> kind, status |-> "pending"]

\* as _generate_actions, with the earlier rule for semantic_search: any custom
\* instructions, deep analysis included
_generate_actions_Earlier(request) ==
  LET a0 == << MkAction(1, "ingest_repository"),
               MkAction(2, "index_repository") >>
      a1 == IF request.analysis_type \in {"security", "full"}
            THEN Append(a0, MkAction(Len(a0) + 1, "run_codeql"))
            ELSE a0
      a2 == IF request.analysis_type = "deep"
            THEN LET t == Append(a1, MkAction(Len(a1) + 1, "gemini_think"))
                 IN  Append(t, MkAction(Len(t) + 1, "gemini_analyze"))
            ELSE a1
      a3 == IF Truthy(request.custom_instructions)
            THEN Append(a2, MkAction(Len(a2) + 1, "semantic_search"))
            ELSE a2
  IN  a3

_generate_actions(request) ==
  LET a0 == << MkAction(1, "ingest_repository"),
               MkAction(2, "index_repository") >>
      a1 == IF request.analysis_type \in {"security", "full"}
            THEN Append(a0, MkAction(Len(a0) + 1, "run_codeql"))
            ELSE a0
      a2 == IF request.analysis_type = "deep"
            THEN LET t == Append(a1, MkAction(Len(a1) + 1, "gemini_think"))
                 IN  Append(t, MkAction(Len(t) + 1, "gemini_analyze"))
            ELSE a1
      a3 == IF Truthy(request.custom_instructions)
               /\ request.analysis_type # "deep"
            THEN Append(a2, MkAction(Len(a2) + 1, "semantic_search"))
            ELSE a2
  IN  a3

\* -------------------------------------------------------- step executor
\* What the collaborators do during one run: which of them raise.
Envs == [think_raises : BOOLEAN, analyze_raises : BOOLEAN,
         codeql_raises : BOOLEAN]

CriticalKinds == {"gemini_think", "gemini_analyze"}

\* as _execute_single_action, with gemini_analyze not looking for the plan
_execute_single_action_NoCheck(action, session_context, env) ==
  CASE action.action = "ingest_repository" ->
         \* IngestService has no get_repo_path: the call raises AttributeError
         [raised |-> TRUE, error |-> "AttributeError",
          session_context |-> session_context]
    [] action.action = "index_repository" ->
         [raised |-> FALSE, error |-> "", session_context |-> session_context]
    [] action.action = "run_codeql" ->
         [raised |-> env.codeql_raises,
          error |-> IF env.codeql_raises THEN "CollaboratorFailure" ELSE "",
          session_context |-> session_context]
    [] action.action = "gemini_think" ->
         IF env.think_raises
         THEN [raised |-> TRUE, error |-> "CollaboratorFailure",
               session_context |-> session_context]
         ELSE [raised |-> FALSE, error |-> "",
               session_context |-> [session_context EXCEPT !.analysis_plan = TRUE]]
    [] action.action = "gemini_analyze" ->
         IF FALSE
         THEN [raised |-> TRUE, error |-> "No analysis plan found in context",
               session_context |-> session_context]
         ELSE [raised |-> env.analyze_raises,
               error |-> IF env.analyze_raises THEN "CollaboratorFailure" ELSE "",
               session_context |-> session_context]
    [] action.action = "semantic_search" ->
         [raised |-> FALSE, error |-> "", session_context |-> session_context]
    [] OTHER ->
         [raised |-> TRUE, error |-> "Unknown action type",
          session_context |-> session_context]

\* _execute_single_action: whether the handler raises, the message, and the
\* session context it leaves
_execute_single_action(action, session_context, env) ==
  CASE action.action = "ingest_repository" ->
         \* IngestService has no get_repo_path: the call raises AttributeError
         [raised |-> TRUE, error |-> "AttributeError",
          session_context |-> session_context]
    [] action.action = "index_repository" ->
         [raised |-> FALSE, error |-> "", session_context |-> session_context]
    [] action.action = "run_codeql" ->
         [raised |-> env.codeql_raises,
          error |-> IF env.codeql_raises THEN "CollaboratorFailure" ELSE "",
          session_context |-> session_context]
    [] action.action = "gemini_think" ->
         IF env.think_raises
         THEN [raised |-> TRUE, error |-> "CollaboratorFailure",
               session_context |-> session_context]
         ELSE [raised |-> FALSE, error |-> "",
               session_context |-> [session_context EXCEPT !.analysis_plan = TRUE]]
    [] action.action = "gemini_analyze" ->
         IF ~session_context.analysis_plan
         THEN [raised |-> TRUE, error |-> "No analysis plan found in context",
               session_context |-> session_context]
         ELSE [raised |-> env.analyze_raises,
               error |-> IF env.analyze_raises THEN "CollaboratorFailure" ELSE "",
               session_context |-> session_context]
    [] action.action = "semantic_search" ->
         [raised |-> FALSE, error |-> "", session_context |-> session_context]
    [] OTHER ->
         [raised |-> TRUE, error |-> "Unknown action type",
          session_context |-> session_context]

\* the local state of _execute_actions before the loop
StartRun(actions, request_data) ==
  [actions |-> actions,
   results |-> [repo_id |-> request_data.repo_id,
                analysis_type |-> request_data.analysis_type,
                action_results |-> <<>>,
                total_actions |-> Len(actions),
                completed_actions |-> 0],
   session_context |-> [analysis_plan |-> FALSE],
   i |-> 1,
   stop |-> FALSE,
   started |-> <<>>]

RunDone(st) == st.stop \/ st.i > Len(st.actions)

\* as LoopBody, going on to the next action after every failure
LoopBody_NoBreak(st, env) ==
  LET action == st.actions[st.i]
      out == _execute_single_action(action, st.session_context, env)
      status == IF out.raised THEN "failed" ELSE "completed"
  IN  [actions |-> [st.actions EXCEPT ![st.i].status = status],
       results |-> [st.results EXCEPT
                      !.action_results =
                         Append(@, [step |-> action.step,
                                    action |-> action.action,
                                    status |-> status,
                                    error |-> out.error]),
                      !.completed_actions = IF out.raised THEN @ ELSE @ + 1],
       session_context |-> out.session_context,
       i |-> st.i + 1,
       stop |-> FALSE,
       started |-> Append(st.started, action.step)]

\* one iteration of the for loop of _execute_actions
LoopBody(st, env) ==
  LET action == st.actions[st.i]
      out == _execute_single_action(action, st.session_context, env)
      status == IF out.raised THEN "failed" ELSE "completed"
  IN  [actions |-> [st.actions EXCEPT ![st.i].status = status],
       results |-> [st.results EXCEPT
                      !.action_results =
                         Append(@, [step |-> action.step,
                                    action |-> action.action,
                                    status |-> status,
                                    error |-> out.error]),
                      !.completed_actions = IF out.raised THEN @ ELSE @ + 1],
       session_context |-> out.session_context,
       i |-> st.i + 1,
       stop |-> out.raised /\ action.action \in CriticalKinds,
       started |-> Append(st.started, action.step)]

RECURSIVE RunLoop(_, _)
RunLoop(st, env) == IF RunDone(st) THEN st ELSE RunLoop(LoopBody(st, env), env)

_execute_actions(actions, request_data, env) ==
  RunLoop(StartRun(actions, request_data), env)

\* ---------------------------------------------------------------- state
VARIABLES
  files,     \* the plans directory: plan id -> None or Some(text of <id>.json)
  clock,     \* the last time datetime.utcnow() returned
  issued,    \* plan id -> None or Some(the plan create_analysis_plan returned)
  resp,      \* the outcome of the last call of the service
  execLog,   \* one entry (the plan id) per run of a plan's action list
  thr,       \* callers that are inside execute_plan at the same time
  creq,      \* a request handed to _generate_actions on its own
  cout,      \* None, or Some(the action list compiled for creq)
  run,       \* the local state of a stand-alone _execute_actions run
  runEnv,    \* what the collaborators do during that run
  discarded, \* the session contexts of the stand-alone runs that ended before
  jobs,      \* ASYNC_JOBS: job id -> None or Some(the job's dictionary)
  submitted, \* the number of background scans submitted (time.time())
  workers,   \* the live threads running _run_scan_async, in start order
  tresp,     \* the last call of execute_tool and what it returned
  agent,     \* the locals of the marathon_agent call, and what it returned
  calls,     \* the model calls of that marathon_agent call, with their replies
  limiter,   \* the RateLimiter object: its limits and its call_history
  utc,       \* what datetime.utcnow() returns to the limiter, in ticks
  granted,   \* tool -> the times check_rate_limit returned True since the
             \* tool's last reset
  lresp      \* the last call of the limiter and what it returned

toolVars == <<jobs, submitted, workers, tresp>>
agentVars == <<agent, calls>>
limiterVars == <<limiter, utc, granted, lresp>>

vars == <<files, clock, issued, resp, execLog, thr, creq, cout, run, runEnv,
          discarded, toolVars, agentVars, limiterVars>>

gateVars == <<files, clock, issued, resp, execLog, thr, creq, cout, run, runEnv,
              discarded>>

PlanIds == 1..MaxPlans
\* ids a caller may name; 0 is an id no plan has
CallIds == 0..MaxPlans
Approvers == {"alice", "bob"}
Threads == {"t1", "t2"}

\* the requests clients send to the gate
GateRequests ==
  { [repo_id |-> "test123", analysis_type |-> "security", custom_instructions |-> Some("X")],
    [repo_id |-> "test123", analysis_type |-> "deep", custom_instructions |-> None] }

NoResp ==
  [op |-> "none", plan_id |-> 0, approved_by |-> "", signature |-> InvalidSignature,
   outcome |-> "", plan |-> None, invoked |-> <<>>]

IdleThread ==
  [pc |-> "idle", plan_id |-> 0, approved_by |-> "", signature |-> InvalidSignature,
   plan |-> None, outcome |-> ""]

IdleRequest ==
  [repo_id |-> "test123", analysis_type |-> "security", custom_instructions |-> None]
IdleRun == StartRun(<<>>, IdleRequest)
NoEnv == [think_raises |-> FALSE, analyze_raises |-> FALSE, codeql_raises |-> FALSE]

\* the 8-character job ids str(uuid.uuid4())[:8] can give
JobIds == {"a1b2c3d4", "0f0f0f0f"}

NoToolResp ==
  [tool_name |-> "", tool_args |-> [shape |-> "none"], raised |-> FALSE,
   result |-> [error |-> ""], ran |-> FALSE, inline_scan |-> FALSE]

\* the tool module as imported: no job, no thread
ToolsIdle ==
  /\ jobs = [j \in JobIds |-> None]
  /\ submitted = 0
  /\ workers = <<>>
  /\ tresp = NoToolResp

\* no marathon_agent call yet
NoAgent ==
  [pc |-> "idle", max_iterations |-> 0, iteration |-> 0,
   interaction_id |-> None, tool_calls_made |-> <<>>, last |-> None,
   result |-> None]

AgentIdle ==
  /\ agent = NoAgent
  /\ calls = <<>>

\* the names the callers of the limiter use
LimiterTools == {"tool1", "tool2"}

NoLimiterResp == [op |-> "none", tool_name |-> None, result |-> FALSE]

\* no RateLimiter has been constructed
LimiterIdle ==
  /\ limiter = [made |-> FALSE, max_calls_per_minute |-> 0,
                max_calls_per_hour |-> 0,
                call_history |-> [t \in LimiterTools |-> None]]
  /\ utc = 0
  /\ granted = [t \in LimiterTools |-> <<>>]
  /\ lresp = NoLimiterResp

Init ==
  /\ files = [i \in PlanIds |-> None]
  /\ clock = 0
  /\ issued = [i \in PlanIds |-> None]
  /\ resp = NoResp
  /\ execLog = <<>>
  /\ thr = [t \in Threads |-> IdleThread]
  /\ creq = IdleRequest
  /\ cout = None
  /\ run = IdleRun
  /\ runEnv = NoEnv
  /\ discarded = <<>>
  /\ ToolsIdle
  /\ AgentIdle
  /\ LimiterIdle

\* ------------------------------------------------------------ plan store
_persist_plan(store, plan) == [store EXCEPT ![plan.plan_id] = Some(JsonDump(plan))]

_load_plan(store, plan_id) ==
  IF plan_id \in DOMAIN store /\ store[plan_id] # None
  THEN Some(JsonLoad(store[plan_id][1]))
  ELSE None

\* datetime.utcnow(): every reading is later than the one before
utcnow(last) == last + 1

\* uuid4: an id no plan has yet
FreshId(store) ==
  CHOOSE i \in PlanIds : store[i] = None /\ \A j \in 1..(i-1) : store[j] # None

\* --------------------------------------------- what a caller can present
\* a plan of another deployment of the service that shares the secret key
Foreign(p) == [p EXCEPT !.plan_id = 0]

\* the signatures a caller presents for plan_id as approved_by: MACs under
\* the server's key over the stored plan (for either approver), over the plan
\* as it was issued and over other plans, a MAC under another key, and two
\* strings that are no MAC at all
Signatures(store, given, plan_id, approved_by) ==
  LET disk == {i \in PlanIds : store[i] # None}
      target == IF plan_id \in disk THEN {plan_id} ELSE {}
      ownJson == {JsonDumpsSorted(JsonLoad(store[i][1])) : i \in target}
      knownJson == {JsonDumpsSorted(given[i][1]) : i \in target}
                     \cup {JsonDumpsSorted(Foreign(given[i][1])) : i \in target}
                     \cup {JsonDumpsSorted(JsonLoad(store[i][1])) : i \in disk \ target}
  IN  {HMAC(SecretKey, <<j, a>>) : j \in ownJson, a \in Approvers}
        \cup {HMAC(SecretKey, <<j, approved_by>>) : j \in knownJson}
        \cup {HMAC(OtherKey, <<j, approved_by>>) : j \in ownJson}
        \cup {InvalidSignature, NonAsciiSignature}

\* the collaborator behaviours that make a difference for these actions
EnvsFor(actions) ==
  LET kinds == {actions[i].action : i \in 1..Len(actions)}
  IN  {e \in Envs :
         /\ e.think_raises => "gemini_think" \in kinds
         /\ e.analyze_raises => "gemini_analyze" \in kinds /\ ~e.think_raises
         /\ e.codeql_raises => "run_codeql" \in kinds}

\* ------------------------------------------------------------ operations
\* the dictionary create_analysis_plan builds
NewPlan(id, request, now) ==
  [plan_id |-> id,
   created_at |-> now,
   status |-> "pending_approval",
   request |-> request,
   actions |-> _generate_actions(request),
   executed_at |-> None,
   results |-> None,
   approval_required |-> TRUE]

Success(op, plan_id, approved_by, signature, plan, invoked) ==
  [op |-> op, plan_id |-> plan_id, approved_by |-> approved_by,
   signature |-> signature, outcome |-> "ok", plan |-> Some(plan),
   invoked |-> invoked]

Failure(op, plan_id, approved_by, signature, outcome) ==
  [op |-> op, plan_id |-> plan_id, approved_by |-> approved_by,
   signature |-> signature, outcome |-> outcome, plan |-> None,
   invoked |-> <<>>]

\* create_analysis_plan
CreatePlan(request) ==
  /\ \E i \in PlanIds : files[i] = None
  /\ clock < MaxClock
  /\ clock' = utcnow(clock)
  /\ LET plan == NewPlan(FreshId(files), request, utcnow(clock))
     IN  /\ files' = _persist_plan(files, plan)
         /\ issued' = [issued EXCEPT ![plan.plan_id] = Some(plan)]
         /\ resp' = Success("create", plan.plan_id, "", InvalidSignature, plan, <<>>)
  /\ UNCHANGED <<execLog, thr, creq, cout, run, runEnv, discarded, toolVars, agentVars, limiterVars>>

\* as Gate, without the "already executed" return
Gate_NoCompletedCheck(loaded, expected_signature, signature) ==
  IF loaded = None THEN "FileNotFoundError"
  ELSE LET check == _verify_signature(expected_signature, signature)
       IN  IF check = "TypeError" THEN "TypeError"
           ELSE IF check # "equal" THEN "PermissionError"
           ELSE "execute"

\* as Gate, without the "not found" raise: the signature of no plan is
\* verified and does not match
Gate_NoLoadCheck(loaded, expected_signature, signature) ==
  IF loaded = None
  THEN (IF signature.ascii THEN "PermissionError" ELSE "TypeError")
  ELSE LET check == _verify_signature(expected_signature, signature)
       IN  IF check = "TypeError" THEN "TypeError"
           ELSE IF check # "equal" THEN "PermissionError"
           ELSE IF loaded[1].status = "completed" THEN "already_executed"
           ELSE "execute"

\* the checks execute_plan makes before it runs anything, in their order
Gate(loaded, expected_signature, signature) ==
  IF loaded = None THEN "FileNotFoundError"
  ELSE LET check == _verify_signature(expected_signature, signature)
       IN  IF check = "TypeError" THEN "TypeError"
           ELSE IF check # "equal" THEN "PermissionError"
           ELSE IF loaded[1].status = "completed" THEN "already_executed"
           ELSE "execute"

\* as Executed, with the status left as it was
Executed_StillPending(plan, st, now) ==
  [plan EXCEPT !.actions = st.actions,
               !.executed_at = Some(now), !.results = Some(st.results)]

\* the plan execute_plan persists and returns after running the actions
Executed(plan, st, now) ==
  [plan EXCEPT !.actions = st.actions, !.status = "completed",
               !.executed_at = Some(now), !.results = Some(st.results)]

\* execute_plan, called by one caller at a time, with any of the signatures
\* a caller can present. The plan is loaded once per call; the expected
\* signature is computed only when a plan was loaded.
ExecutePlan(plan_id, approved_by) ==
  /\ \E loaded \in {_load_plan(files, plan_id)} :
     \E expected \in {IF loaded = None THEN InvalidSignature
                      ELSE ExpectedSignature(loaded[1], approved_by)} :
     \E signature \in Signatures(files, issued, plan_id, approved_by) :
       LET gate == Gate(loaded, expected, signature)
       IN  IF gate = "execute"
           THEN \E env \in EnvsFor(loaded[1].actions) :
                \E st \in {_execute_actions(loaded[1].actions,
                                            loaded[1].request, env)} :
                \E done \in {Executed(loaded[1], st, utcnow(clock))} :
                  /\ clock < MaxClock
                  /\ clock' = utcnow(clock)
                  /\ files' = _persist_plan(files, done)
                  /\ execLog' = Append(execLog, plan_id)
                  /\ resp' = Success("execute", plan_id, approved_by,
                                     signature, done, st.started)
           ELSE /\ resp' = IF gate = "already_executed"
                           THEN Success("execute", plan_id, approved_by,
                                        signature, loaded[1], <<>>)
                           ELSE Failure("execute", plan_id, approved_by,
                                        signature, gate)
                /\ UNCHANGED <<files, execLog, clock>>
  /\ UNCHANGED <<issued, thr, creq, cout, run, runEnv, discarded, toolVars, agentVars, limiterVars>>

\* GET /orchestrate/plan/{plan_id}
GetPlan(plan_id) ==
  LET loaded == _load_plan(files, plan_id) IN
    /\ resp' = IF loaded = None
               THEN Failure("get", plan_id, "", InvalidSignature,
                            "FileNotFoundError")
               ELSE Success("get", plan_id, "", InvalidSignature, loaded[1], <<>>)
    /\ UNCHANGED <<files, clock, issued, execLog, thr, creq, cout, run, runEnv, discarded, toolVars, agentVars, limiterVars>>

Next ==
  \/ \E request \in GateRequests : CreatePlan(request)
  \/ \E plan_id \in CallIds, approved_by \in Approvers :
       ExecutePlan(plan_id, approved_by)
  \/ \E plan_id \in CallIds : GetPlan(plan_id)

Spec == Init /\ [][Next]_vars

\* ------------------------------------------- execute_plan, concurrently
\* A caller enters execute_plan: it loads the plan and makes the checks
\* (orchestrator.py lines 85-101).  No lock is taken.
T_Enter(t, plan_id, approved_by, signature) ==
  /\ thr[t].pc = "idle"
  /\ LET loaded == _load_plan(files, plan_id)
         gate == Gate(loaded, ExpectedSignature(loaded[1], approved_by), signature)
     IN  thr' = [thr EXCEPT ![t] =
                   [pc |-> IF gate = "execute" THEN "execute" ELSE "done",
                    plan_id |-> plan_id,
                    approved_by |-> approved_by,
                    signature |-> signature,
                    plan |-> IF gate \in {"execute", "already_executed"}
                             THEN loaded ELSE None,
                    outcome |-> IF gate = "execute" THEN ""
                                ELSE IF gate = "already_executed" THEN "ok"
                                ELSE gate]]
  /\ UNCHANGED <<files, clock, issued, resp, execLog, creq, cout, run, runEnv, discarded, toolVars, agentVars, limiterVars>>

\* it runs the actions of its copy of the plan and fills in the results
\* (lines 103-110)
T_Execute(t) ==
  /\ thr[t].pc = "execute"
  /\ clock < MaxClock
  /\ clock' = utcnow(clock)
  /\ \E env \in EnvsFor(thr[t].plan[1].actions) :
       LET plan == thr[t].plan[1]
           st == _execute_actions(plan.actions, plan.request, env)
       IN  thr' = [thr EXCEPT ![t].pc = "persist",
                              ![t].plan = Some(Executed(plan, st, utcnow(clock)))]
  /\ execLog' = Append(execLog, thr[t].plan_id)
  /\ UNCHANGED <<files, issued, resp, creq, cout, run, runEnv, discarded, toolVars, agentVars, limiterVars>>

\* it writes the plan file and returns (lines 112-116)
T_Persist(t) ==
  /\ thr[t].pc = "persist"
  /\ files' = _persist_plan(files, thr[t].plan[1])
  /\ thr' = [thr EXCEPT ![t].pc = "done", ![t].outcome = "ok"]
  /\ UNCHANGED <<clock, issued, resp, execLog, creq, cout, run, runEnv, discarded, toolVars, agentVars, limiterVars>>

NextConc ==
  \/ \E request \in GateRequests : CreatePlan(request)
  \/ \E t \in Threads, plan_id \in PlanIds, approved_by \in Approvers :
       /\ issued[plan_id] # None
       /\ \E signature \in {generate_signature(issued[plan_id][1], approved_by),
                            InvalidSignature} :
            T_Enter(t, plan_id, approved_by, signature)
  \/ \E t \in Threads : T_Execute(t)
  \/ \E t \in Threads : T_Persist(t)

SpecConc == Init /\ [][NextConc]_vars

\* ------------------------------------- the plan files edited from outside
\* someone with access to the plans directory appends a whitespace character
\* to the file of a plan
AppendWhitespace(id) ==
  /\ files[id] # None
  /\ files[id][1].trailing < MaxPad
  /\ files' = [files EXCEPT ![id] = Some([@[1] EXCEPT !.trailing = @ + 1])]
  /\ UNCHANGED <<clock, issued, resp, execLog, thr, creq, cout, run, runEnv,
                 discarded, toolVars, agentVars, limiterVars>>

NextTamper ==
  \/ \E request \in GateRequests : CreatePlan(request)
  \/ \E plan_id \in CallIds, approved_by \in Approvers :
       ExecutePlan(plan_id, approved_by)
  \/ \E id \in PlanIds : AppendWhitespace(id)

SpecTamper == Init /\ [][NextTamper]_vars

\* ------------------------------------------- _generate_actions on its own
CompileRequests ==
  [repo_id : {"test123", "a1b2c3d4"},
   analysis_type : {"security", "full", "deep", "architecture", "performance",
                    "custom", ""},
   custom_instructions : {None, Some(""), Some("X"), Some("Find authentication code")}]

InitCompile ==
  /\ files = [i \in PlanIds |-> None]
  /\ clock = 0
  /\ issued = [i \in PlanIds |-> None]
  /\ resp = NoResp
  /\ execLog = <<>>
  /\ thr = [t \in Threads |-> IdleThread]
  /\ creq \in CompileRequests
  /\ cout = None
  /\ run = IdleRun
  /\ runEnv = NoEnv
  /\ discarded = <<>>
  /\ ToolsIdle
  /\ AgentIdle
  /\ LimiterIdle

Compile ==
  /\ cout = None
  /\ cout' = Some(_generate_actions(creq))
  /\ UNCHANGED <<files, clock, issued, resp, execLog, thr, creq, run, runEnv, discarded, toolVars, agentVars, limiterVars>>

SpecCompile == InitCompile /\ [][Compile]_vars

\* -------------------------------------------- _execute_actions on its own
Kinds ==
  {"ingest_repository", "index_repository", "run_codeql", "gemini_think",
   "gemini_analyze", "semantic_search", "unknown_action"}

\* the action lists of length n
ActionLists(n) == {[i \in 1..n |-> MkAction(i, ks[i])] : ks \in [1..n -> Kinds]}

InitExec ==
  /\ files = [i \in PlanIds |-> None]
  /\ clock = 0
  /\ issued = [i \in PlanIds |-> None]
  /\ resp = NoResp
  /\ execLog = <<>>
  /\ thr = [t \in Threads |-> IdleThread]
  /\ creq = IdleRequest
  /\ cout = None
  /\ \E n \in 0..MaxActions : \E actions \in ActionLists(n) :
       /\ run = StartRun(actions, IdleRequest)
       /\ runEnv \in EnvsFor(actions)
  /\ discarded = <<>>
  /\ ToolsIdle
  /\ AgentIdle
  /\ LimiterIdle

\* one iteration of the loop of _execute_actions
ExecStep ==
  /\ ~RunDone(run)
  /\ run' = LoopBody(run, runEnv)
  /\ UNCHANGED <<files, clock, issued, resp, execLog, thr, creq, cout, runEnv, discarded, toolVars, agentVars, limiterVars>>

\* _execute_actions returns and is called again: its session_context is a
\* local that goes away, the new call builds its own
ExecAgain ==
  /\ RunDone(run)
  /\ Len(discarded) + 1 < MaxRuns
  /\ discarded' = Append(discarded, run.session_context)
  /\ \E n \in 0..1 : \E actions \in ActionLists(n) :
       /\ run' = StartRun(actions, IdleRequest)
       /\ runEnv' \in EnvsFor(actions)
  /\ UNCHANGED <<files, clock, issued, resp, execLog, thr, creq, cout, toolVars, agentVars, limiterVars>>

NextExec == ExecStep \/ ExecAgain

SpecExec == InitExec /\ [][NextExec]_vars

\* ------------------------------------------------------ tool executor
TOOL_EXECUTORS ==
  {"search_github_repos", "analyze_repository", "search_npm_packages",
   "search_pypi_packages", "generate_mvp_files", "run_security_scan",
   "check_scan_status"}

\* the names callers pass: the two job tools, a tool that goes to the network
\* and one that does not, a tool AGENT_TOOLS declares without an executor,
\* and a name nobody declares
ToolNames ==
  {"run_security_scan", "check_scan_status", "search_github_repos",
   "generate_mvp_files", "run_code_analysis", "no_such_tool"}

\* Argument maps, by what func(**tool_args) makes of them.
\*   shape: "valid" binds to the parameters; "missing" lacks a required one
\*          and "none" is no mapping (both TypeError at the call)
\*   background: the value given for run_security_scan's background
\*   value: the value of the tool's main parameter
Malformed ==
  {[shape |-> sh, background |-> "default", value |-> "good"] :
     sh \in {"missing", "none"}}

ArgsFor(tool_name) ==
  Malformed \cup
  CASE tool_name \notin TOOL_EXECUTORS ->
         {[shape |-> "valid", background |-> "default", value |-> "good"]}
    [] tool_name = "run_security_scan" ->
         {[shape |-> "valid", background |-> b, value |-> "good"] :
            b \in {"default", "true", "false"}}
    [] tool_name = "check_scan_status" ->
         {[shape |-> "valid", background |-> "default", value |-> v] :
            v \in JobIds \cup {"ffffffff", "unhashable"}}
    [] OTHER ->
         {[shape |-> "valid", background |-> "default", value |-> v] :
            v \in {"good", "bad"}}

\* the statuses a tool whose whole body is in a try block can return
ToolStatuses(tool_name, value) ==
  CASE value = "bad" -> {"error"}
    [] tool_name = "search_pypi_packages" -> {"limited"}
    [] tool_name = "generate_mvp_files" -> {"success"}
    [] OTHER -> {"success", "error"}

\* run_security_scan(background=False): it returns a success or an error
\* dictionary, or raises before its try block is entered
SyncScanOutcomes == {"success", "error", "raises"}

ToolResp(tool_name, tool_args, raised, result, ran, inline_scan) ==
  [tool_name |-> tool_name, tool_args |-> tool_args, raised |-> raised,
   result |-> result, ran |-> ran, inline_scan |-> inline_scan]

\* as check_scan_status, reporting every job that is not finished as unknown
check_scan_status_NoSnapshot(store, job_id) ==
  IF job_id \in JobIds /\ store[job_id] # None
     /\ store[job_id][1].status = "completed" /\ store[job_id][1].result # None
  THEN [raised |-> FALSE, result |-> store[job_id][1].result[1]]
  ELSE [raised |-> FALSE,
        result |-> [status |-> "error", message |-> "Job ID not found"]]

\* check_scan_status: the dictionary it returns, or the exception it raises
check_scan_status(store, job_id) ==
  IF job_id = "unhashable"
  THEN [raised |-> TRUE, result |-> [error |-> "TypeError"]]
  ELSE IF job_id \notin JobIds \/ store[job_id] = None
  THEN [raised |-> FALSE,
        result |-> [status |-> "error", message |-> "Job ID not found"]]
  ELSE LET job == store[job_id][1]
       IN  IF job.status = "completed"
           THEN (IF job.result = None
                 THEN [raised |-> TRUE, result |-> [error |-> "KeyError"]]
                 ELSE [raised |-> FALSE, result |-> job.result[1]])
           ELSE IF job.status = "failed"
           THEN [raised |-> FALSE,
                 result |-> [status |-> "error", error |-> job.error]]
           ELSE [raised |-> FALSE,
                 result |-> [status |-> "running", job_id |-> job_id]]

\* str(uuid.uuid4())[:8]: the first 8 hex characters of a random uuid. They
\* may be those of an id already in the table; of the ids not in the table
\* the first stands for all (which one it is makes no difference).
Uuid8(store) ==
  {j \in JobIds : store[j] # None}
    \cup (IF store["a1b2c3d4"] = None THEN {"a1b2c3d4"}
          ELSE IF store["0f0f0f0f"] = None THEN {"0f0f0f0f"} ELSE {})

\* as execute_tool's handling of what the tool did, without the try block
Finish_NoCatch(tool_name, tool_args, out, ran, inline_scan) ==
  tresp' = ToolResp(tool_name, tool_args, out.raised, out.result, ran,
                    inline_scan)

\* execute_tool's try block around func(**tool_args): a raised exception
\* becomes {"error": str(e)}
Finish(tool_name, tool_args, out, ran, inline_scan) ==
  tresp' = ToolResp(tool_name, tool_args, FALSE, out.result, ran, inline_scan)

\* execute_tool, with everything the tool it calls does on the calling thread
ExecuteTool(tool_name, tool_args) ==
  /\ UNCHANGED <<gateVars, agentVars, limiterVars>>
  /\ IF tool_name \notin TOOL_EXECUTORS
     THEN /\ tresp' = ToolResp(tool_name, tool_args, FALSE,
                               [error |-> "Tool not found"], FALSE, FALSE)
          /\ UNCHANGED <<jobs, submitted, workers>>
     ELSE IF tool_args.shape # "valid"
     THEN /\ Finish(tool_name, tool_args,
                    [raised |-> TRUE, result |-> [error |-> "TypeError"]],
                    FALSE, FALSE)
          /\ UNCHANGED <<jobs, submitted, workers>>
     ELSE IF tool_name = "run_security_scan" /\ tool_args.background # "false"
     THEN /\ submitted < MaxSubmissions
          /\ \E job_id \in Uuid8(jobs) :
               /\ jobs' = [jobs EXCEPT ![job_id] =
                             Some([status |-> "queued",
                                   submitted_at |-> submitted + 1,
                                   result |-> None, error |-> None])]
               /\ workers' = Append(workers, [job_id |-> job_id,
                                              pc |-> "started",
                                              result |-> "none"])
               /\ Finish(tool_name, tool_args,
                         [raised |-> FALSE,
                          result |-> [status |-> "queued", job_id |-> job_id]],
                         TRUE, FALSE)
          /\ submitted' = submitted + 1
     ELSE IF tool_name = "run_security_scan"
     THEN /\ \E o \in SyncScanOutcomes :
               Finish(tool_name, tool_args,
                      IF o = "raises"
                      THEN [raised |-> TRUE, result |-> [error |-> "raised"]]
                      ELSE [raised |-> FALSE, result |-> [status |-> o]],
                      TRUE, o # "raises")
          /\ UNCHANGED <<jobs, submitted, workers>>
     ELSE IF tool_name = "check_scan_status"
     THEN /\ Finish(tool_name, tool_args,
                    check_scan_status(jobs, tool_args.value), TRUE, FALSE)
          /\ UNCHANGED <<jobs, submitted, workers>>
     ELSE /\ \E st \in ToolStatuses(tool_name, tool_args.value) :
               Finish(tool_name, tool_args,
                      [raised |-> FALSE, result |-> [status |-> st]],
                      TRUE, FALSE)
          /\ UNCHANGED <<jobs, submitted, workers>>

\* one step of the thread running _run_scan_async(job_id, ...): each write to
\* ASYNC_JOBS is a step of its own
WorkerStep(w) ==
  LET t == workers[w]
      job == jobs[t.job_id][1]
      Go(pc) == workers' = [workers EXCEPT ![w].pc = pc]
      \* the thread ends
      End == workers' = [i \in 1..(Len(workers) - 1) |->
                           IF i < w THEN workers[i] ELSE workers[i + 1]]
      Put(j) == jobs' = [jobs EXCEPT ![t.job_id] = Some(j)]
  IN  /\ UNCHANGED <<gateVars, submitted, tresp, agentVars, limiterVars>>
      /\ CASE t.pc = "started" ->
                Put([job EXCEPT !.status = "running"]) /\ Go("running")
          [] t.pc = "running" ->
                /\ \E o \in SyncScanOutcomes :
                     workers' = [workers EXCEPT
                                   ![w].pc = IF o = "raises" THEN "caught"
                                             ELSE "returned",
                                   ![w].result = o]
                /\ UNCHANGED jobs
          [] t.pc = "returned" ->
                /\ Put([job EXCEPT !.result = Some([status |-> t.result])])
                /\ workers' = [workers EXCEPT ![w].pc = "stored",
                                              ![w].result = "none"]
          [] t.pc = "stored" ->
                Put([job EXCEPT !.status = "completed"]) /\ End
          [] t.pc = "caught" ->
                Put([job EXCEPT !.status = "failed"]) /\ Go("failing")
          [] t.pc = "failing" ->
                Put([job EXCEPT !.error = Some("raised")]) /\ End
          [] OTHER -> FALSE

NextTools ==
  \/ \E tool_name \in ToolNames : \E tool_args \in ArgsFor(tool_name) :
       ExecuteTool(tool_name, tool_args)
  \/ \E w \in 1..Len(workers) : WorkerStep(w)

SpecTools == Init /\ [][NextTools]_vars

\* the scheduler lets every started thread run: a worker that can take a step
\* takes one
SpecToolsFair ==
  SpecTools /\ WF_vars(\E w \in 1..Len(workers) : WorkerStep(w))

\* ------------------------------------------------- the gate: properties
Stored(id) == JsonLoad(files[id][1])

Pristine(p) ==
  /\ p.status = "pending_approval"
  /\ p.executed_at = None
  /\ p.results = None
  /\ \A i \in 1..Len(p.actions) : p.actions[i].status = "pending"

\* this step is a call of execute_plan for plan id
ExecuteCall(id) == resp' # resp /\ resp'.op = "execute" /\ resp'.plan_id = id

\* C1: execute_plan called twice in sequence with the same arguments, the
\* first call having succeeded, succeeds again, returns the same results and
\* executed_at, and runs no action during the second call.
C1_IdempotentReexecution ==
  [][ ( /\ resp.op = "execute" /\ resp.outcome = "ok"
        /\ resp'.op = "execute"
        /\ resp'.plan_id = resp.plan_id
        /\ resp'.approved_by = resp.approved_by
        /\ resp'.signature = resp.signature )
      => ( /\ resp'.outcome = "ok"
           /\ resp'.plan[1].results = resp.plan[1].results
           /\ resp'.plan[1].executed_at = resp.plan[1].executed_at
           /\ execLog' = execLog ) ]_vars

\* C2: on a pending plan, every signature other than the MAC of the persisted
\* plan and the approver of the same call is refused with PermissionError,
\* no action is run and the plan file is left as it was.
C2_AuthorizationGate ==
  [][ \A id \in PlanIds :
        ( /\ files[id] # None
          /\ Stored(id).status = "pending_approval"
          /\ ExecuteCall(id)
          /\ resp'.signature # generate_signature(Stored(id), resp'.approved_by) )
        => ( /\ resp'.outcome = "PermissionError"
             /\ files' = files
             /\ execLog' = execLog ) ]_vars

C4_CompletedShortCircuit ==
  [][ \A id \in PlanIds :
        ( /\ files[id] # None
          /\ Stored(id).status = "completed"
          /\ ExecuteCall(id) )
        => ( /\ resp'.outcome = "ok"
             /\ resp'.plan = _load_plan(files, id)
             /\ files' = files
             /\ execLog' = execLog ) ]_vars

C7_UnknownPlan ==
  [][ ( /\ resp' # resp
        /\ resp'.op \in {"execute", "get"}
        /\ _load_plan(files, resp'.plan_id) = None )
      => ( /\ resp'.outcome = "FileNotFoundError"
           /\ files' = files
           /\ execLog' = execLog ) ]_vars

\* an unknown id was given with a signature that cannot even be compared,
\* while another plan is on disk
C7_Witness ==
  /\ resp.op = "execute" /\ resp.outcome = "FileNotFoundError"
  /\ resp.signature = NonAsciiSignature
  /\ _load_plan(files, resp.plan_id) = None
  /\ \E i \in PlanIds : files[i] # None

\* C8: create_plan runs nothing and returns and persists a plan that is
\* pending, with no executed_at, no results and every action pending; the
\* record changes only in an execute_plan call whose signature is the MAC of
\* the persisted plan and the approver of that call.
C8_CreateExecutesNothing ==
  [][ /\ (resp' # resp /\ resp'.op = "create") =>
           /\ execLog' = execLog
           /\ resp'.invoked = <<>>
           /\ Pristine(resp'.plan[1])
           /\ _load_plan(files', resp'.plan_id) = resp'.plan
           /\ \A i \in PlanIds \ {resp'.plan_id} : files'[i] = files[i]
      /\ \A id \in PlanIds :
           (files[id] # None /\ Pristine(Stored(id)) /\ files'[id] # files[id]) =>
             /\ ExecuteCall(id)
             /\ resp'.signature = generate_signature(Stored(id), resp'.approved_by)
      /\ \A id \in PlanIds :
           (files'[id] # None /\ JsonLoad(files'[id][1]).status = "pending_approval") =>
             /\ Pristine(JsonLoad(files'[id][1]))
             /\ \A k \in 1..Len(execLog') : execLog'[k] # id ]_vars

\* a created plan is still as created after an execute_plan call was refused
C8_Witness ==
  /\ resp.op = "execute" /\ resp.outcome = "PermissionError"
  /\ files[resp.plan_id] # None
  /\ Pristine(Stored(resp.plan_id))
  /\ issued[resp.plan_id] = Some(Stored(resp.plan_id))

\* ------------------------------------------ concurrent calls: properties
Runs(log, id) == Cardinality({k \in 1..Len(log) : log[k] = id})
Inside(t, id) == thr[t].pc \in {"execute", "persist"} /\ thr[t].plan_id = id

\* C5: however execute_plan calls with a valid signature on one pending plan
\* interleave, the plan's actions are run by at most one of them, no two
\* calls are between load and persist at the same time, and what one call
\* persisted as results and executed_at is not overwritten by another.
C5_AtMostOnceUnderConcurrency ==
  [][ \A id \in PlanIds :
        /\ Runs(execLog', id) <= 1
        /\ \A t, u \in Threads : (Inside(t, id)' /\ Inside(u, id)') => t = u
        /\ (files[id] # None /\ Stored(id).status = "completed")
             => files'[id] = files[id] ]_vars

\* ------------------------------------------ plan compilation: properties
Present(instructions) == instructions # None /\ instructions[1] # ""

\* the list the rule of the claim gives
CompiledKinds(kind, instructions) ==
  <<"ingest_repository", "index_repository">>
    \o (IF kind \in {"security", "full"} THEN <<"run_codeql">> ELSE <<>>)
    \o (IF kind = "deep" THEN <<"gemini_think", "gemini_analyze">> ELSE <<>>)
    \o (IF Present(instructions) /\ kind # "deep" THEN <<"semantic_search">> ELSE <<>>)

RunKinds == [i \in 1..Len(run.actions) |-> run.actions[i].action]

\* C10: actions start in list order; after action i fails, action i+1 is
\* started iff action i is not think or analyze; actions after a critical
\* failure stay pending; and for [ingest, index, think(fails), analyze]
\* analyze is never started and completed_actions is 2.
C10_FailurePropagation ==
  /\ run.started = [k \in 1..Len(run.started) |-> run.actions[k].step]
  /\ \A j \in (Len(run.started) + 1)..Len(run.actions) :
       run.actions[j].status = "pending"
  /\ RunDone(run) =>
       /\ \A i \in 1..(Len(run.actions) - 1) :
            (i <= Len(run.started) /\ run.actions[i].status = "failed") =>
              ((i + 1 <= Len(run.started)) <=> (RunKinds[i] \notin CriticalKinds))
       /\ ( /\ RunKinds = <<"ingest_repository", "index_repository",
                            "gemini_think", "gemini_analyze">>
            /\ runEnv.think_raises )
            => ( /\ Len(run.started) = 3
                 /\ run.results.completed_actions = 2 )

\* ------------------------------------------- the gate: aborted runs
\* the run recorded in plan p stopped at a failed critical action
Aborted(p) ==
  /\ p.results # None
  /\ LET ar == p.results[1].action_results
     IN  /\ Len(ar) \in 1..(Len(p.actions) - 1)
         /\ ar[Len(ar)].status = "failed"
         /\ ar[Len(ar)].action \in CriticalKinds

\* C11: when execute_plan runs a plan and the run stops before the last
\* action, the plan is persisted and returned as completed, with executed_at
\* and the partial results (the last recorded action is the failed critical
\* one, the later actions are not recorded and stay pending); and once such a
\* plan is stored, no call runs its actions or rewrites it.
C11_AbortedRunCompletesPlan ==
  [][ \A id \in PlanIds :
        /\ ( /\ ExecuteCall(id)
             /\ resp'.invoked # <<>>
             /\ Len(resp'.invoked) < Len(issued[id][1].actions) )
           => ( /\ resp'.outcome = "ok"
                /\ _load_plan(files', id) = resp'.plan
                /\ resp'.plan[1].status = "completed"
                /\ resp'.plan[1].executed_at # None
                /\ Aborted(resp'.plan[1])
                /\ Len(resp'.plan[1].results[1].action_results)
                     = Len(resp'.invoked)
                /\ \A i \in (Len(resp'.invoked) + 1)..Len(resp'.plan[1].actions) :
                     resp'.plan[1].actions[i].status = "pending" )
        /\ ( /\ files[id] # None
             /\ Aborted(Stored(id)) )
           => ( /\ files'[id] = files[id]
                /\ execLog' = execLog \/ execLog'[Len(execLog')] # id
                /\ ExecuteCall(id) => resp'.invoked = <<>> ) ]_vars

\* a later execute_plan call was made on a plan whose run was aborted
C11_Witness ==
  /\ resp.op = "execute" /\ resp.plan_id \in PlanIds
  /\ files[resp.plan_id] # None
  /\ Aborted(Stored(resp.plan_id))
  /\ Stored(resp.plan_id).status = "completed"
  /\ resp.invoked = <<>>

\* ------------------------------------- the step executor: prerequisites
\* C12: in a run of _execute_actions, a gemini_analyze action recorded when
\* no gemini_think of the same run has completed before it is recorded as
\* failed with the missing-plan error, whatever earlier runs left behind.
C12_AnalyzeNeedsThinkOfSameRun ==
  LET ar == run.results.action_results
  IN  \A k \in 1..Len(ar) :
        ( /\ ar[k].action = "gemini_analyze"
          /\ ~ \E j \in 1..(k-1) : /\ ar[j].action = "gemini_think"
                                   /\ ar[j].status = "completed" )
        => ( /\ ar[k].status = "failed"
             /\ ar[k].error = "No analysis plan found in context" )

\* an earlier run completed gemini_think, and gemini_analyze was dispatched
\* in a later run that has no gemini_think
C12_Witness ==
  /\ \E d \in 1..Len(discarded) : discarded[d].analysis_plan
  /\ Len(run.results.action_results) = 1
  /\ run.results.action_results[1].action = "gemini_analyze"
  /\ run.results.action_results[1].status = "failed"

\* --------------------------------------- the gate: edited plan files
\* C13: a signature that was valid for a pending plan is refused with
\* PermissionError once a whitespace character has been appended to the
\* plan's file.
C13_WhitespaceInvalidatesSignature ==
  [][ \A id \in PlanIds :
        ( /\ files[id] # None
          /\ files[id][1].trailing > 0
          /\ Stored(id).status = "pending_approval"
          /\ ExecuteCall(id)
          /\ resp'.signature = generate_signature(issued[id][1], resp'.approved_by) )
        => ( /\ resp'.outcome = "PermissionError"
             /\ execLog' = execLog ) ]_vars

\* -------------------------------------------------------- marathon agent
\* The output parts of a reply of the model. The id of a function_call part
\* is given by the provider: here the turn and the position of the part.
ThoughtPart == [type |-> "thought"]
TextPart == [type |-> "text", text |-> "final answer"]
CallParts ==
  {[type |-> "function_call", name |-> n,
    arguments |-> [shape |-> "valid", background |-> "default", value |-> "good"]] :
     n \in {"generate_mvp_files", "run_code_analysis"}}
Parts == {ThoughtPart, TextPart} \cup CallParts

\* interaction.outputs: the replies a model call can give
Replies == UNION {[1..n -> Parts] : n \in 0..MaxTurnLen}

\* what execute_tool can return for the tools that keep no state
StatelessResults(tool_name, tool_args) ==
  IF tool_name \notin TOOL_EXECUTORS THEN {[error |-> "Tool not found"]}
  ELSE IF tool_args.shape # "valid" THEN {[error |-> "TypeError"]}
  ELSE {[status |-> st] : st \in ToolStatuses(tool_name, tool_args.value)}

NoResult == [status |-> "none"]

\* for each function_call part of a reply, a result execute_tool can return
ResultsFor(outputs) ==
  {rs \in [1..Len(outputs) ->
             {NoResult} \cup UNION {StatelessResults(c.name, c.arguments) :
                                      c \in CallParts}] :
     \A p \in 1..Len(outputs) :
       IF outputs[p].type = "function_call"
       THEN rs[p] \in StatelessResults(outputs[p].name, outputs[p].arguments)
       ELSE rs[p] = NoResult}

\* the dictionaries marathon_agent returns
\* as Completed, reported as an exhausted run
Completed_AsExhausted(response, iteration, tool_calls) ==
  [status |-> "max_iterations", iterations |-> iteration,
   tool_calls |-> tool_calls]

Completed(response, iteration, tool_calls) ==
  [status |-> "completed", response |-> response, iterations |-> iteration,
   tool_calls |-> tool_calls]

Exhausted(iteration, tool_calls) ==
  [status |-> "max_iterations", iterations |-> iteration,
   tool_calls |-> tool_calls]

\* as AgentError, without the tool calls made so far
AgentError_NoHistory(error, iteration, tool_calls) ==
  [status |-> "error", error |-> error, iterations |-> iteration,
   tool_calls |-> <<>>]

AgentError(error, iteration, tool_calls) ==
  [status |-> "error", error |-> error, iterations |-> iteration,
   tool_calls |-> tool_calls]

\* the locals of the for loop over interaction.outputs, before the loop
StartTurn(a) ==
  [has_function_call |-> FALSE, last |-> a.last,
   tool_calls_made |-> a.tool_calls_made, returned |-> None]

RECURSIVE ProcessOutputs(_, _, _, _, _)
\* the for loop over interaction.outputs, from part p on
ProcessOutputs(st, outputs, results, iteration, p) ==
  IF p > Len(outputs) \/ st.returned # None THEN st
  ELSE LET output == outputs[p]
           next ==
             IF output.type = "function_call"
             THEN [st EXCEPT
                     !.has_function_call = TRUE,
                     !.last = Some([name |-> output.name,
                                    call_id |-> <<iteration, p>>,
                                    result |-> results[p]]),
                     !.tool_calls_made =
                        Append(@, [iteration |-> iteration,
                                   function |-> output.name,
                                   result |-> results[p]])]
             ELSE IF output.type = "text" /\ ~st.has_function_call
             THEN [st EXCEPT !.returned = Some(output.text)]
             ELSE st
       IN  ProcessOutputs(next, outputs, results, iteration, p + 1)

\* as AgentInput, sending the goal again on every turn
AgentInput_GoalAgain(iteration, last) ==
  [type |-> "text", text |-> "user_goal"]

\* agent_input: the goal on the first turn, then the last function result
AgentInput(iteration, last) ==
  IF iteration = 1
  THEN [type |-> "text", text |-> "user_goal"]
  ELSE [type |-> "function_result",
        name |-> last[1].name,
        call_id |-> last[1].call_id,
        result |-> last[1].result]

\* marathon_agent is called
StartAgent(max_iterations, available) ==
  /\ agent.pc = "idle"
  /\ agent' = [agent EXCEPT
                 !.pc = IF available THEN "loop" ELSE "raised",
                 !.max_iterations = max_iterations]
  /\ UNCHANGED <<gateVars, toolVars, calls, limiterVars>>

\* the while condition fails: the return after the loop
AgentExhausted ==
  /\ agent.pc = "loop"
  /\ ~(agent.iteration < agent.max_iterations)
  /\ agent' = [agent EXCEPT
                 !.pc = "returned",
                 !.result = Some(Exhausted(agent.iteration,
                                           agent.tool_calls_made))]
  /\ UNCHANGED <<gateVars, toolVars, calls, limiterVars>>

\* one iteration of the while loop: the model call and the handling of its
\* reply, with the tools it executes
AgentTurn ==
  /\ agent.pc = "loop"
  /\ agent.iteration < agent.max_iterations
  /\ UNCHANGED <<gateVars, toolVars, limiterVars>>
  /\ LET iteration == agent.iteration + 1
         agent_input == AgentInput(iteration, agent.last)
         call == [input |-> agent_input,
                  previous_interaction_id |-> agent.interaction_id]
         Return(r) ==
           [agent EXCEPT !.pc = "returned", !.iteration = iteration,
                         !.interaction_id = Some(iteration),
                         !.result = Some(r)]
     IN  \/ \* interactions.create raises
            /\ calls' = Append(calls, [call |-> call, reply |-> None])
            /\ agent' = [agent EXCEPT
                           !.pc = "returned", !.iteration = iteration,
                           !.result = Some(AgentError("model call failed",
                                                      iteration,
                                                      agent.tool_calls_made))]
         \/ \E outputs \in Replies : \E results \in ResultsFor(outputs) :
            \E st \in {ProcessOutputs(StartTurn(agent), outputs, results,
                                      iteration, 1)} :
              /\ calls' = Append(calls, [call |-> call, reply |-> Some(outputs)])
              /\ agent' =
                   IF outputs = <<>>
                   THEN Return(Exhausted(iteration, agent.tool_calls_made))
                   ELSE IF st.returned # None
                   THEN Return(Completed(st.returned[1], iteration,
                                         st.tool_calls_made))
                   ELSE IF ~st.has_function_call
                   THEN Return(Completed("No response", iteration,
                                         st.tool_calls_made))
                   ELSE [agent EXCEPT
                           !.iteration = iteration,
                           !.interaction_id = Some(iteration),
                           !.tool_calls_made = st.tool_calls_made,
                           !.last = st.last]

NextAgent ==
  \/ \E max_iterations \in 0..MaxIterations, available \in BOOLEAN :
       StartAgent(max_iterations, available)
  \/ AgentTurn
  \/ AgentExhausted

SpecAgent == Init /\ [][NextAgent]_vars

\* ----------------------------------------------------------- rate limiter
\* Times are counted in ticks: timedelta(minutes=1) is Minute ticks and
\* timedelta(hours=1) is Hour ticks.
Minute == 2
Hour == 4

\* self.call_history[tool_name], an absent key read as the list the method
\* creates for it
History(call_history, tool_name) ==
  IF call_history[tool_name] = None THEN <<>> ELSE call_history[tool_name][1]

\* as check_rate_limit, refusing only above the limits
check_rate_limit_OffByOne(call_history, tool_name, at, per_minute, per_hour) ==
  LET kept == SelectSeq(History(call_history, tool_name),
                        LAMBDA ts : ts > at - Hour)
      calls_last_minute == Len(SelectSeq(kept, LAMBDA ts : ts > at - Minute))
      calls_last_hour == Len(kept)
  IN  IF calls_last_minute > per_minute \/ calls_last_hour > per_hour
      THEN [result |-> FALSE,
            call_history |-> [call_history EXCEPT ![tool_name] = Some(kept)]]
      ELSE [result |-> TRUE,
            call_history |-> [call_history EXCEPT
                                ![tool_name] = Some(Append(kept, at))]]

\* check_rate_limit, the body under the lock: what it returns and the
\* call_history it leaves
check_rate_limit(call_history, tool_name, at, per_minute, per_hour) ==
  LET kept == SelectSeq(History(call_history, tool_name),
                        LAMBDA ts : ts > at - Hour)
      calls_last_minute == Len(SelectSeq(kept, LAMBDA ts : ts > at - Minute))
      calls_last_hour == Len(kept)
  IN  IF calls_last_minute >= per_minute \/ calls_last_hour >= per_hour
      THEN [result |-> FALSE,
            call_history |-> [call_history EXCEPT ![tool_name] = Some(kept)]]
      ELSE [result |-> TRUE,
            call_history |-> [call_history EXCEPT
                                ![tool_name] = Some(Append(kept, at))]]

\* RateLimiter(max_calls_per_minute, max_calls_per_hour)
NewRateLimiter(per_minute, per_hour) ==
  /\ ~limiter.made
  /\ limiter' = [made |-> TRUE, max_calls_per_minute |-> per_minute,
                 max_calls_per_hour |-> per_hour,
                 call_history |-> [t \in LimiterTools |-> None]]
  /\ UNCHANGED <<gateVars, toolVars, agentVars, utc, granted, lresp>>

\* time passes
Tick ==
  /\ limiter.made
  /\ utc < MaxTime
  /\ utc' = utc + 1
  /\ UNCHANGED <<gateVars, toolVars, agentVars, limiter, granted, lresp>>

\* a caller runs check_rate_limit(tool_name); the lock makes the call one step
CheckRateLimit(tool_name) ==
  /\ limiter.made
  /\ \E out \in {check_rate_limit(limiter.call_history, tool_name, utc,
                                   limiter.max_calls_per_minute,
                                   limiter.max_calls_per_hour)} :
       /\ limiter' = [limiter EXCEPT !.call_history = out.call_history]
       /\ lresp' = [op |-> "check", tool_name |-> Some(tool_name),
                    result |-> out.result]
       /\ granted' = IF out.result
                     THEN [granted EXCEPT ![tool_name] = Append(@, utc)]
                     ELSE granted
  /\ UNCHANGED <<gateVars, toolVars, agentVars, utc>>

\* a caller runs reset(tool_name); reset(None) forgets every tool
Reset(tool_name) ==
  /\ limiter.made
  /\ limiter' = [limiter EXCEPT
                   !.call_history =
                      IF tool_name = None THEN [t \in LimiterTools |-> None]
                      ELSE [@ EXCEPT ![tool_name[1]] = Some(<<>>)]]
  /\ granted' = IF tool_name = None THEN [t \in LimiterTools |-> <<>>]
                ELSE [granted EXCEPT ![tool_name[1]] = <<>>]
  /\ lresp' = [op |-> "reset", tool_name |-> tool_name, result |-> FALSE]
  /\ UNCHANGED <<gateVars, toolVars, agentVars, utc>>

NextLimiter ==
  \/ \E per_minute \in 1..MaxLimit, per_hour \in 1..(MaxLimit + 1) :
       NewRateLimiter(per_minute, per_hour)
  \/ Tick
  \/ \E tool_name \in LimiterTools : CheckRateLimit(tool_name)
  \/ \E tool_name \in {None} \cup {Some(t) : t \in LimiterTools} :
       Reset(tool_name)

SpecLimiter == Init /\ [][NextLimiter]_vars

\* ------------------------------------------ tool executor: properties
\* this step is a call of execute_tool
ToolCall ==
  tresp' # tresp \/ submitted' # submitted

\* C14: execute_tool never raises and returns a dictionary, for every tool
\* name and argument map; for a name without an executor it returns the
\* "not found" error and runs nothing; when the call of the tool raises
\* (arguments that do not bind, a value the tool cannot handle) it returns
\* a dictionary with the single key "error".
C14_ExecuteToolNeverRaises ==
  [][ ToolCall =>
        /\ ~tresp'.raised
        /\ DOMAIN tresp'.result \cap {"error", "status"} # {}
        /\ tresp'.tool_name \notin TOOL_EXECUTORS
             => ( /\ tresp'.result = [error |-> "Tool not found"]
                  /\ ~tresp'.ran
                  /\ jobs' = jobs /\ workers' = workers )
        /\ ( /\ tresp'.tool_name \in TOOL_EXECUTORS
             /\ \/ tresp'.tool_args.shape # "valid"
                \/ tresp'.tool_args.value = "unhashable" )
             => DOMAIN tresp'.result = {"error"} ]_vars

\* the tool raised (a job id that cannot be a dictionary key) and
\* execute_tool returned the error dictionary
C14_Witness ==
  /\ tresp.tool_name = "check_scan_status"
  /\ tresp.tool_args.value = "unhashable"
  /\ tresp.ran /\ ~tresp.raised
  /\ tresp.result = [error |-> "TypeError"]

\* C15: every call of run_security_scan through execute_tool with arguments
\* that fit the declared parameters creates a job, starts a worker thread and
\* returns a handle with status queued, and the scan is not executed on the
\* calling thread.
C15_ScanNeverInline ==
  [][ ( /\ ToolCall
        /\ tresp'.tool_name = "run_security_scan"
        /\ tresp'.tool_args.shape = "valid" )
      => ( /\ "status" \in DOMAIN tresp'.result
           /\ tresp'.result.status = "queued"
           /\ Len(workers') = Len(workers) + 1
           /\ jobs'[tresp'.result.job_id] # None
           /\ jobs'[tresp'.result.job_id][1].status = "queued"
           /\ ~tresp'.inline_scan ) ]_vars

\* the statuses a job may move between
JobMoves ==
  {<<"queued", "running">>, <<"running", "completed">>, <<"running", "failed">>}

\* C20: the stored status of a job only moves queued -> running -> completed
\* or queued -> running -> failed, and never back.
C20_JobStatusMonotonic ==
  [][ \A j \in JobIds :
        ( /\ jobs[j] # None /\ jobs'[j] # None
          /\ jobs'[j][1].submitted_at = jobs[j][1].submitted_at )
        => \/ jobs'[j][1].status = jobs[j][1].status
           \/ <<jobs[j][1].status, jobs'[j][1].status>> \in JobMoves ]_vars

\* ------------------------------------------ marathon agent: properties
HasPart(outputs, type) == \E p \in 1..Len(outputs) : outputs[p].type = type

\* the model answered turn k
Answered(k) == k \in 1..Len(calls) /\ calls[k].reply # None

RECURSIVE RequestedUpTo(_)
\* the function calls the model requested in its first k turns, in order
RequestedUpTo(k) ==
  IF k = 0 THEN <<>>
  ELSE RequestedUpTo(k - 1) \o
       (IF calls[k].reply = None THEN <<>>
        ELSE LET outputs == calls[k].reply[1]
                 fc == SelectSeq(outputs, LAMBDA o : o.type = "function_call")
             IN  [p \in 1..Len(fc) |-> [iteration |-> k, function |-> fc[p].name]])

Logged(tool_calls) ==
  [p \in 1..Len(tool_calls) |->
     [iteration |-> tool_calls[p].iteration, function |-> tool_calls[p].function]]

\* C16: when the reply of turn k has a text part and no function_call part,
\* the agent has returned "completed" at iteration k with that text as the
\* response, it executed no tool in turn k and made no further model call; for
\* k = 1 the tool_calls log is empty.
C16_TextWithoutCallCompletes ==
  \A k \in 1..Len(calls) :
    (/\ calls[k].reply # None
     /\ HasPart(calls[k].reply[1], "text")
     /\ ~HasPart(calls[k].reply[1], "function_call"))
    => /\ Len(calls) = k
       /\ agent.pc = "returned"
       /\ agent.result[1].status = "completed"
       /\ agent.result[1].response = TextPart.text
       /\ agent.result[1].iterations = k
       /\ \A p \in 1..Len(agent.result[1].tool_calls) :
            agent.result[1].tool_calls[p].iteration < k
       /\ (k = 1 => agent.result[1].tool_calls = <<>>)

\* a run that called a tool in turn 1 and was answered with text in turn 2
C16_Witness ==
  /\ Len(calls) = 2
  /\ Answered(2)
  /\ HasPart(calls[2].reply[1], "text")
  /\ ~HasPart(calls[2].reply[1], "function_call")
  /\ agent.pc = "returned"
  /\ agent.result[1].status = "completed"
  /\ agent.result[1].tool_calls # <<>>

\* a tool result that reports a failure
FailedResult(result) == "error" \in DOMAIN result

\* C17: a run in which every reply of the model holds a function_call part and
\* every tool result is a failure makes exactly max_iterations model calls and
\* returns "max_iterations" with iterations = max_iterations and the history
\* of all the requested calls.
C17_FailingToolExhausts ==
  (/\ agent.pc = "returned"
   /\ \A k \in 1..Len(calls) :
        Answered(k) /\ HasPart(calls[k].reply[1], "function_call")
   /\ \A p \in 1..Len(agent.result[1].tool_calls) :
        FailedResult(agent.result[1].tool_calls[p].result))
  => /\ Len(calls) = agent.max_iterations
     /\ agent.result[1].status = "max_iterations"
     /\ agent.result[1].iterations = agent.max_iterations
     /\ Logged(agent.result[1].tool_calls) = RequestedUpTo(Len(calls))

\* C17, for replies whose parts before the first function_call are thoughts:
\* the same statement
C17_CallFirstExhausts ==
  (/\ agent.pc = "returned"
   /\ \A k \in 1..Len(calls) :
        /\ Answered(k)
        /\ \E p \in 1..Len(calls[k].reply[1]) :
             /\ calls[k].reply[1][p].type = "function_call"
             /\ \A q \in 1..(p - 1) : calls[k].reply[1][q].type = "thought"
   /\ \A p \in 1..Len(agent.result[1].tool_calls) :
        FailedResult(agent.result[1].tool_calls[p].result))
  => /\ Len(calls) = agent.max_iterations
     /\ agent.result[1].status = "max_iterations"
     /\ agent.result[1].iterations = agent.max_iterations
     /\ Logged(agent.result[1].tool_calls) = RequestedUpTo(Len(calls))

\* C18: when the model call of turn k raises, the agent has returned "error"
\* with the error, iterations = k and the tool calls of turns 1..k-1; it made
\* no further model call and the exception did not leave marathon_agent.
C18_ModelCallFailureAborts ==
  \A k \in 1..Len(calls) :
    calls[k].reply = None
    => /\ Len(calls) = k
       /\ agent.pc = "returned"
       /\ agent.result[1].status = "error"
       /\ agent.result[1].error = "model call failed"
       /\ agent.result[1].iterations = k
       /\ Logged(agent.result[1].tool_calls) = RequestedUpTo(k - 1)
       /\ agent.result[1].tool_calls = agent.tool_calls_made

\* the model call of turn 2 raised after a tool was executed in turn 1
C18_Witness ==
  /\ Len(calls) = 2
  /\ calls[2].reply = None
  /\ agent.pc = "returned"
  /\ agent.result[1].status = "error"
  /\ agent.result[1].tool_calls # <<>>

\* C19: every tool result of turn k is part of the input of the model call of
\* turn k+1.
C19_EveryResultFedBack ==
  \A k \in 1..(Len(calls) - 1) :
    \A p \in 1..Len(agent.tool_calls_made) :
      agent.tool_calls_made[p].iteration = k
      => /\ calls[k + 1].call.input.type = "function_result"
         /\ calls[k + 1].call.input.name = agent.tool_calls_made[p].function
         /\ calls[k + 1].call.input.result = agent.tool_calls_made[p].result

\* C19, for turns with one function_call part: the same statement
C19_SingleResultFedBack ==
  \A k \in 1..(Len(calls) - 1) :
    Len(SelectSeq(calls[k].reply[1], LAMBDA o : o.type = "function_call")) = 1
    => \A p \in 1..Len(agent.tool_calls_made) :
         agent.tool_calls_made[p].iteration = k
         => /\ calls[k + 1].call.input.type = "function_result"
            /\ calls[k + 1].call.input.name = agent.tool_calls_made[p].function
            /\ calls[k + 1].call.input.result = agent.tool_calls_made[p].result

\* ------------------------------------------------- the jobs: properties
\* this step is a submission of a scan job
Submission == submitted' = submitted + 1

\* C21: job ids are never reused: a submission leaves every entry the table
\* already holds as it is, and gives the new job an id that had no entry.
C21_JobIdsUnique ==
  [][ Submission =>
        /\ jobs[tresp'.result.job_id] = None
        /\ \A j \in JobIds : jobs[j] # None => jobs'[j] = jobs[j] ]_vars

\* C22: check_scan_status for an id with no entry reports "Job ID not found"
\* as an error; for a job that is queued or running it returns a snapshot
\* that is no error and carries the job id; no poll changes the table.
C22_PollOutcomes ==
  [][ ( /\ tresp' # tresp
        /\ tresp'.tool_name = "check_scan_status"
        /\ tresp'.tool_args.shape = "valid"
        /\ tresp'.tool_args.value # "unhashable" )
      => LET job_id == tresp'.tool_args.value
         IN  /\ jobs' = jobs /\ workers' = workers /\ submitted' = submitted
             /\ (job_id \notin JobIds \/ jobs[job_id] = None)
                  => tresp'.result = [status |-> "error",
                                      message |-> "Job ID not found"]
             /\ ( /\ job_id \in JobIds /\ jobs[job_id] # None
                  /\ jobs[job_id][1].status \in {"queued", "running"} )
                  => /\ ~tresp'.raised
                     /\ "error" \notin DOMAIN tresp'.result
                     /\ tresp'.result.status = "running"
                     /\ tresp'.result.job_id = job_id ]_vars

\* a poll of a job whose worker has not started it yet
C22_Witness ==
  /\ tresp.tool_name = "check_scan_status"
  /\ tresp.tool_args.value \in JobIds
  /\ jobs[tresp.tool_args.value] # None
  /\ jobs[tresp.tool_args.value][1].status = "queued"
  /\ tresp.result = [status |-> "running", job_id |-> tresp.tool_args.value]

\* the job has its final status and the payload that belongs to it
Finished(j) ==
  /\ jobs[j] # None
  /\ \/ jobs[j][1].status = "completed" /\ jobs[j][1].result # None
     \/ jobs[j][1].status = "failed" /\ jobs[j][1].error # None

\* C23: when every worker thread is scheduled, every submitted job comes to
\* be completed with its result stored or failed with its error stored.
C23_JobProgress ==
  \A j \in JobIds : (jobs[j] # None) ~> Finished(j)

\* C28: a poll that finds a job completed returns the job's result, and a
\* poll that finds it failed returns an error message that is not None.
C28_NoTornRead ==
  [][ ( /\ tresp' # tresp
        /\ tresp'.tool_name = "check_scan_status"
        /\ tresp'.tool_args.shape = "valid"
        /\ tresp'.tool_args.value \in JobIds
        /\ jobs[tresp'.tool_args.value] # None )
      => LET job == jobs[tresp'.tool_args.value][1]
         IN  /\ job.status = "completed"
                  => /\ job.result # None
                     /\ tresp'.result = job.result[1]
             /\ job.status = "failed"
                  => /\ job.error # None
                     /\ tresp'.result = [status |-> "error",
                                         error |-> job.error] ]_vars

\* ------------------------------- the gate: prerequisites in compiled plans
\* C30: in every run of a plan made by create_analysis_plan, a gemini_analyze
\* action is dispatched only after a gemini_think of the same run completed,
\* and it never fails with the missing-plan error; after a failed
\* gemini_think no gemini_analyze is dispatched.
C30_CompiledPlanHasPrerequisite ==
  \A id \in PlanIds :
    (files[id] # None /\ Stored(id).results # None) =>
      LET ar == Stored(id).results[1].action_results
      IN  \A k \in 1..Len(ar) :
            ar[k].action = "gemini_analyze" =>
              /\ \E j \in 1..(k - 1) : /\ ar[j].action = "gemini_think"
                                       /\ ar[j].status = "completed"
              /\ ar[k].error # "No analysis plan found in context"
              /\ ~ \E j \in 1..(k - 1) : /\ ar[j].action = "gemini_think"
                                         /\ ar[j].status = "failed"

\* a deep plan was run and its gemini_analyze was dispatched and failed in
\* the collaborator
C30_Witness ==
  \E id \in PlanIds :
    /\ files[id] # None /\ Stored(id).results # None
    /\ LET ar == Stored(id).results[1].action_results
       IN  \E k \in 1..Len(ar) : /\ ar[k].action = "gemini_analyze"
                                 /\ ar[k].status = "failed"
                                 /\ ar[k].error = "CollaboratorFailure"

\* ---------------------------------- marathon agent: outcomes and chaining
\* the tool calls logged so far by the marathon_agent call
CurrentLog ==
  IF agent.result # None THEN agent.result[1].tool_calls
  ELSE agent.tool_calls_made

\* the function calls the model requested in turn k
RequestedIn(k) ==
  IF calls[k].reply = None THEN <<>>
  ELSE LET fc == SelectSeq(calls[k].reply[1],
                           LAMBDA o : o.type = "function_call")
       IN  [p \in 1..Len(fc) |-> [iteration |-> k, function |-> fc[p].name]]

LoggedIn(k) ==
  LET es == SelectSeq(CurrentLog, LAMBDA e : e.iteration = k)
  IN  [p \in 1..Len(es) |-> [iteration |-> k, function |-> es[p].function]]

\* C25: marathon_agent makes at most max_iterations model calls and ends by
\* returning a result with status completed, max_iterations or error; it
\* never raises to its caller.
C25_ClosedOutcomes ==
  /\ Len(calls) <= agent.max_iterations
  /\ agent.pc \in {"idle", "loop", "returned"}
  /\ agent.pc = "returned" =>
       /\ agent.result # None
       /\ agent.result[1].status \in {"completed", "max_iterations", "error"}

\* C25, for a service whose Gemini client is available: the same statement
\* about the calls that entered the loop
C25_LoopClosedOutcomes ==
  /\ Len(calls) <= agent.max_iterations
  /\ agent.pc = "returned" =>
       /\ agent.result # None
       /\ agent.result[1].status \in {"completed", "max_iterations", "error"}
  /\ agent.pc = "raised" => calls = <<>>

\* C26: a turn whose reply holds a function_call part does not end the run
\* with status completed, and every function_call part of the turn is
\* executed.
C26_TextEndsOnlyWithoutCall ==
  \A k \in 1..Len(calls) :
    (Answered(k) /\ HasPart(calls[k].reply[1], "function_call"))
    => /\ ~ ( /\ agent.result # None
              /\ agent.result[1].status = "completed"
              /\ agent.result[1].iterations = k )
       /\ LoggedIn(k) = RequestedIn(k)

\* C29: a result with status max_iterations reports iterations =
\* max_iterations, and max_iterations model calls were made.
C29_ExhaustedMeansBudgetUsed ==
  (agent.result # None /\ agent.result[1].status = "max_iterations")
  => /\ agent.result[1].iterations = agent.max_iterations
     /\ Len(calls) = agent.max_iterations

\* C27: the first model call sends the goal with no previous interaction id;
\* every later call of turn k sends the name, call id and result of a
\* function call executed in turn k-1, with the interaction id of turn k-1,
\* and is made when every function call of turn k-1 has been executed.
C27_TurnChaining ==
  \A k \in 1..Len(calls) :
    IF k = 1
    THEN /\ calls[1].call.input = [type |-> "text", text |-> "user_goal"]
         /\ calls[1].call.previous_interaction_id = None
    ELSE /\ calls[k].call.input.type = "function_result"
         /\ calls[k].call.previous_interaction_id = Some(k - 1)
         /\ Answered(k - 1)
         /\ \E p \in 1..Len(calls[k - 1].reply[1]) :
              /\ calls[k - 1].reply[1][p].type = "function_call"
              /\ calls[k].call.input.name = calls[k - 1].reply[1][p].name
              /\ calls[k].call.input.call_id = <<k - 1, p>>
         /\ \E e \in 1..Len(CurrentLog) :
              /\ CurrentLog[e].iteration = k - 1
              /\ CurrentLog[e].function = calls[k].call.input.name
              /\ CurrentLog[e].result = calls[k].call.input.result
         /\ LoggedIn(k - 1) = RequestedIn(k - 1)

\* a second model call was made after a turn with two function calls
C27_Witness ==
  /\ Len(calls) = 2
  /\ Len(RequestedIn(1)) = 2
  /\ calls[2].call.input.type = "function_result"
  /\ calls[2].call.previous_interaction_id = Some(1)

\* ------------------------------------------- the rate limiter: properties
\* of the True calls in log, no more than per_minute lie in any minute and no
\* more than per_hour in any hour (a window ends at one of the calls)
WithinLimits(log, per_minute, per_hour) ==
  \A i \in 1..Len(log) :
    /\ Cardinality({j \in 1..Len(log) :
                      log[j] > log[i] - Minute /\ log[j] <= log[i]}) <= per_minute
    /\ Cardinality({j \in 1..Len(log) :
                      log[j] > log[i] - Hour /\ log[j] <= log[i]}) <= per_hour

\* this step is a call of check_rate_limit for tool t
CheckStep(t) ==
  /\ limiter.made
  /\ utc' = utc
  /\ lresp'.op = "check" /\ lresp'.tool_name = Some(t)
  /\ (lresp' # lresp \/ limiter' # limiter)

\* C24: for every tool, the calls of check_rate_limit that returned True
\* since the tool's last reset stay within the per-minute and the per-hour
\* limit in every window; a call that returns False records no time stamp;
\* a call for one tool neither reads nor changes the history of another; and
\* the first call for a tool after its reset returns True.
C24_RateLimitEnforced ==
  [][ \A t \in LimiterTools :
        CheckStep(t) =>
          /\ WithinLimits(granted'[t], limiter.max_calls_per_minute,
                          limiter.max_calls_per_hour)
          /\ ~lresp'.result =>
               /\ granted' = granted
               /\ History(limiter'.call_history, t) =
                    SelectSeq(History(limiter.call_history, t),
                              LAMBDA ts : ts > utc - Hour)
          /\ \A u \in LimiterTools \ {t} :
               /\ limiter'.call_history[u] = limiter.call_history[u]
               /\ granted'[u] = granted[u]
          /\ lresp'.result =
               check_rate_limit([u \in LimiterTools |->
                                   IF u = t THEN limiter.call_history[t]
                                   ELSE None],
                                t, utc, limiter.max_calls_per_minute,
                                limiter.max_calls_per_hour).result
          /\ granted[t] = <<>> => lresp'.result ]_vars

\* more than an hour after the start tool1 is refused, with allowed calls
\* of both tools on record
C24_Witness ==
  /\ lresp.op = "check" /\ lresp.tool_name = Some("tool1") /\ ~lresp.result
  /\ granted["tool1"] # <<>>
  /\ granted["tool2"] # <<>>
  /\ utc >= Hour

====================================================================
